---- MODULE Spec2Model ----
(***************************************************************************)
(* Model of OLE/gp_predicter.py: the per-quantity ensemble GP_predictor    *)
(* and the per-dimension model GP.                                         *)
(*                                                                         *)
(* Numerical values are abstracted to what the properties need:            *)
(*   - a Dataset is the raw data it was cut from plus the sequence of row  *)
(*     indices it holds;                                                   *)
(*   - a posterior is the Dataset and the noise variance it was fitted on  *)
(*     (gpx.fit is deterministic: fixed key, fixed iteration count);       *)
(*   - an inverse kernel matrix is the Dataset and posterior it was built  *)
(*     from;                                                               *)
(*   - error_tolerance is counted in units of TolInit / 2^MaxHalvings of   *)
(*     the configured tolerance, halving below one unit underflows to 0;   *)
(*   - a jax PRNG key is its path in the split tree.                       *)
(* An optional value (None in the source) is <<>>, a present value <<v>>.  *)
(***************************************************************************)
EXTENDS Integers, Sequences, FiniteSets, TLC

\* ---- bounds ----
MaxN == 3            \* rows of a raw training set
MaxWidth == 3        \* compressed output width
MaxLoads == 3        \* GP_predictor.load_data calls
MaxHalvings == 1     \* halvings of error_tolerance that are exact
MaxKeyDepth == 3     \* splits along one chain of PRNG keys
MaxSamples == 2      \* N of sample_prediction, N_quality_samples

\* a configured testset_fraction is k / FracDen, k in 1..FracDen-1
FracDen == 2

TolInit == 2 ^ MaxHalvings

Iota(n) == [i \in 1..n |-> i]

\* ---- configuration ----

\* GP.__init__ defaulthyperparameters merged with the keyword arguments;
\* the fields no method of the module assigns after construction.
Hyperparameters ==
    [kernel : {"RBF", "Matern"},
     plotting_directory : {<<>>, <<"dir">>},
     testset_fraction : {<<>>} \cup {<<k>> : k \in 1..(FracDen - 1)},
     N_quality_samples : 1..MaxSamples,
     error_tolerance : {TolInit}]

\* training data of the ensemble: the ver-th raw data loaded, n rows,
\* compressed to width columns
DataSets == [ver : 1..MaxLoads, n : {MaxN}, width : 1..MaxWidth]

\* training data handed to a GP used on its own: one column
GPDataSets == [ver : 1..2, n : 1..MaxN, width : {1}]

VARIABLES
    hyperparameters,   \* GP_predictor.hyperparameters
    dp,                \* data_processor: <<>> or <<data>>
    GPs,               \* GP_predictor.GPs
    num_GPs,           \* GP_predictor.num_GPs
    gp,                \* a GP used on its own
    RNGkey,            \* the key the caller holds
    drawn,             \* keys random.normal drew with, in calls that returned
    nDraws,            \* number of those random.normal calls
    out                \* what the last call returned or raised

vars == <<hyperparameters, dp, GPs, num_GPs, gp, RNGkey, drawn, nDraws, out>>

\* ---- np.random.seed(0); np.random.permutation(n) ----
\* MT19937 seeded with 0, Fisher-Yates from the top; indices are 1-based here.
Permutation(n) ==
    CASE n = 0 -> <<>>
      [] n = 1 -> <<1>>
      [] n = 2 -> <<2, 1>>
      [] n = 3 -> <<3, 2, 1>>
      [] n = 4 -> <<3, 4, 2, 1>>
      [] n = 5 -> <<3, 1, 2, 4, 5>>
      [] n = 6 -> <<6, 3, 2, 4, 1, 5>>

\* int((1 - testset_fraction) * n)
SplitPoint(k, n) == ((FracDen - k) * n) \div FracDen

\* a training set taken from the head of the unpermuted rows
TrainIndices_head(k, n) == SubSeq(Iota(n), 1, SplitPoint(k, n))

\* np.split(np.random.permutation(n), [split])[0]
TrainIndices(k, n) == SubSeq(Permutation(n), 1, SplitPoint(k, n))

\* np.split(np.random.permutation(n), [split])[1]
TestIndices(k, n) == SubSeq(Permutation(n), SplitPoint(k, n) + 1, n)

\* ---- class GP ----

\* a constructor that takes a tolerance already halved once
NewGP_lowered(id, h) ==
    [id |-> id,
     error_tolerance |-> h.error_tolerance \div 2,
     recompute_kernel_matrix |-> FALSE,
     inv_Kxx |-> <<>>,
     inv_current |-> FALSE,
     D |-> <<>>,
     test_D |-> <<>>,
     opt_posterior |-> <<>>]

\* GP.__init__; id tells the instances apart: <<position, data version at creation>>
NewGP(id, h) ==
    [id |-> id,
     error_tolerance |-> h.error_tolerance,
     recompute_kernel_matrix |-> FALSE,
     inv_Kxx |-> <<>>,
     inv_current |-> FALSE,     \* history: inv_Kxx was built after the last load_data and train
     D |-> <<>>,
     test_D |-> <<>>,
     opt_posterior |-> <<>>]

\* gpx.Dataset(input_data[idx], output_data[idx]), column col of data d
Dataset(d, col, idx) == [ver |-> d.ver, col |-> col, idx |-> idx]

\* a load_data that leaves the dirty flag as it finds it
GP_load_data_flag_kept(g, h, d, col) ==
    IF h.testset_fraction = <<>>
    THEN [g EXCEPT !.inv_current = FALSE,
                   !.D = <<Dataset(d, col, Iota(d.n))>>,
                   !.test_D = <<>>]
    ELSE [g EXCEPT !.inv_current = FALSE,
                   !.D = <<Dataset(d, col, TrainIndices(h.testset_fraction[1], d.n))>>,
                   !.test_D = <<Dataset(d, col, TestIndices(h.testset_fraction[1], d.n))>>]

\* GP.load_data
GP_load_data(g, h, d, col) ==
    IF h.testset_fraction = <<>>
    THEN [g EXCEPT !.recompute_kernel_matrix = TRUE,
                   !.inv_current = FALSE,
                   !.D = <<Dataset(d, col, Iota(d.n))>>,
                   !.test_D = <<>>]
    ELSE [g EXCEPT !.recompute_kernel_matrix = TRUE,
                   !.inv_current = FALSE,
                   !.D = <<Dataset(d, col, TrainIndices(h.testset_fraction[1], d.n))>>,
                   !.test_D = <<Dataset(d, col, TestIndices(h.testset_fraction[1], d.n))>>]

\* diagnostics that are written whatever plotting_directory is
Diagnostics_always(h) == TRUE

\* the test that guards every call of the plotting functions and of os.makedirs
Diagnostics(h) == h.plotting_directory # <<>>

\* a train that builds the RBF kernel whatever 'kernel' says
TrainOutcomes_any_kernel(g, h) ==
    IF g.D = <<>> THEN {"AttributeError"}
    ELSE {"ok"}
         \cup (IF Len(g.D[1].idx) = 0 THEN {"fit_error"} ELSE {})
         \cup (IF Diagnostics(h) THEN {"plot_error"} ELSE {})

\* the ways GP.train can end: the kernel is refused, no Dataset was loaded,
\* gpx.fit on an empty Dataset may raise, the plotting calls may raise
TrainOutcomes(g, h) ==
    IF h.kernel # "RBF" THEN {"ValueError"}
    ELSE IF g.D = <<>> THEN {"AttributeError"}
    ELSE {"ok"}
         \cup (IF Len(g.D[1].idx) = 0 THEN {"fit_error"} ELSE {})
         \cup (IF Diagnostics(h) THEN {"plot_error"} ELSE {})

\* a fit whose optimizer is free to take the noise variance to zero
Fit_noise_trained(g) == [D |-> g.D[1], noise |-> 0]

\* gpx.fit: the optimized posterior, noise variance pinned to error_tolerance
Fit(g) == [D |-> g.D[1], noise |-> g.error_tolerance]

\* GP.train
GP_train(g, how) ==
    CASE how \in {"ValueError", "AttributeError"} -> g
      [] how = "fit_error" -> [g EXCEPT !.opt_posterior = <<>>, !.inv_current = FALSE]
      [] OTHER -> [g EXCEPT !.opt_posterior = <<Fit(g)>>, !.inv_current = FALSE]

\* opt_posterior.compute_inv_Kxx(D)
compute_inv_Kxx(post, D) == [D |-> D, post |-> post]

\* GP.predict with line 456 in force: the flag is cleared once the inverse is built
GP_cache_clearing(g) ==
    IF g.recompute_kernel_matrix
    THEN [g EXCEPT !.inv_Kxx = <<compute_inv_Kxx(g.opt_posterior[1], g.D[1])>>,
                   !.inv_current = TRUE,
                   !.recompute_kernel_matrix = FALSE]
    ELSE g

\* GP.predict and GP.sample: the model after the inverse was looked up
GP_cache(g) ==
    IF g.recompute_kernel_matrix
    THEN [g EXCEPT !.inv_Kxx = <<compute_inv_Kxx(g.opt_posterior[1], g.D[1])>>,
                   !.inv_current = TRUE]
    ELSE g

\* the inverse calculate_mean_single_from_inv_Kxx is given by GP.predict and GP.sample
GP_inv(g) == GP_cache(g).inv_Kxx

\* GP.predict, GP.sample, GP.predict_value_and_std need a fitted posterior
CanPredict(g) == g.opt_posterior # <<>> /\ g.D # <<>>

\* random.split(RNGkey)
SplitKey(key) == <<Append(key, 0), Append(key, 1)>>

\* GP.sample: the key returned
sample_newkey(key) == SplitKey(key)[1]

\* a sample that draws with the key it returns
sample_drawkey_returned(key) == SplitKey(key)[1]

\* GP.sample: the key random.normal draws with
sample_drawkey(key) == SplitKey(key)[2]

\* predictive_dist.stddev()[0] at the points the calls are given
PredictiveStds == {1, 4}

\* jnp.sqrt on the values of PredictiveStds
Sqrt(s) == CHOOSE r \in 0..s : r * r = s

\* GP.sample: what random.normal(...) is multiplied by
sample_scale(std) == Sqrt(std)

\* the default of the RNGkey parameter, random.PRNGKey(time.time_ns()): evaluated
\* once, when the def statement runs, and kept in the function's defaults
DefaultRNGkey == <<2>>

NoOut ==
    [op |-> "none", ok |-> TRUE, err |-> "",
     before |-> <<>>,    \* GP.predict, GP.sample: inv_Kxx when the call began
     inv |-> <<>>,       \* GP.predict, GP.sample: the inverse the mean was computed from
     current |-> <<>>,   \* and whether it was built after the last load_data and train
     key |-> <<>>,       \* GP.sample, sample_prediction: the key passed in
     N |-> 0,            \* sample_prediction: the N passed in
     rows |-> 0,         \* sample_prediction: rows returned
     draws |-> 0,        \* sample_prediction: draws each model put in its column
     tests |-> <<>>,     \* train: test_indices of run_tests
     std |-> <<>>,       \* GP.predict_value_and_std, GP.sample: predictive_std[0] at the point
     scale |-> <<>>,     \* GP.sample: the factor the standard normal draws are multiplied by
     drawkey |-> <<>>,   \* GP.sample: the key random.normal drew with
     plotted |-> FALSE,  \* train: os.makedirs or a plotting function was called
     stdsq |-> <<>>,     \* update_error: std**2 of each model at the point
     data |-> <<>>]      \* GP.load_data: the data passed in

\* ---- a GP used on its own ----

GPLoadData(d) ==
    /\ gp' = GP_load_data(gp, hyperparameters, d, 1)
    /\ out' = [NoOut EXCEPT !.op = "GP.load_data", !.data = <<d>>]
    /\ UNCHANGED <<hyperparameters, dp, GPs, num_GPs, RNGkey, drawn, nDraws>>

GPTrain(how) ==
    /\ how \in TrainOutcomes(gp, hyperparameters)
    /\ gp' = GP_train(gp, how)
    /\ out' = [NoOut EXCEPT !.op = "GP.train", !.ok = (how = "ok"), !.err = how,
                            !.plotted = (Diagnostics(hyperparameters) /\ how \in {"ok", "plot_error"})]
    /\ UNCHANGED <<hyperparameters, dp, GPs, num_GPs, RNGkey, drawn, nDraws>>

GPPredict ==
    /\ CanPredict(gp)
    /\ gp' = GP_cache(gp)
    /\ out' = [NoOut EXCEPT !.op = "GP.predict", !.before = gp.inv_Kxx, !.inv = GP_inv(gp),
                            !.current = <<GP_cache(gp).inv_current>>]
    /\ UNCHANGED <<hyperparameters, dp, GPs, num_GPs, RNGkey, drawn, nDraws>>

GPPredictValueAndStd(std) ==
    /\ CanPredict(gp)
    /\ out' = [NoOut EXCEPT !.op = "GP.predict_value_and_std", !.std = <<std>>]
    /\ UNCHANGED <<hyperparameters, dp, GPs, num_GPs, gp, RNGkey, drawn, nDraws>>

GPSample(std) ==
    /\ CanPredict(gp)
    /\ Len(RNGkey) < MaxKeyDepth
    /\ gp' = GP_cache(gp)
    /\ RNGkey' = sample_newkey(RNGkey)
    /\ drawn' = drawn \cup {sample_drawkey(RNGkey)}
    /\ nDraws' = nDraws + 1
    /\ out' = [NoOut EXCEPT !.op = "GP.sample", !.before = gp.inv_Kxx, !.inv = GP_inv(gp),
                            !.key = <<RNGkey>>,
                            !.current = <<GP_cache(gp).inv_current>>,
                            !.std = <<std>>,
                            !.scale = <<sample_scale(std)>>,
                            !.drawkey = <<sample_drawkey(RNGkey)>>,
                            !.rows = hyperparameters.N_quality_samples,
                            !.draws = hyperparameters.N_quality_samples]
    /\ UNCHANGED <<hyperparameters, dp, GPs, num_GPs>>

\* GP.sample called without RNGkey; the caller's own key is not involved
GPSampleDefaultKey(std) ==
    /\ CanPredict(gp)
    /\ gp' = GP_cache(gp)
    /\ out' = [NoOut EXCEPT !.op = "GP.sample", !.before = gp.inv_Kxx, !.inv = GP_inv(gp),
                            !.current = <<GP_cache(gp).inv_current>>,
                            !.std = <<std>>,
                            !.scale = <<sample_scale(std)>>,
                            !.drawkey = <<sample_drawkey(DefaultRNGkey)>>,
                            !.rows = hyperparameters.N_quality_samples,
                            !.draws = hyperparameters.N_quality_samples]
    /\ UNCHANGED <<hyperparameters, dp, GPs, num_GPs, RNGkey, drawn, nDraws>>

\* ---- class GP_predictor ----

\* GP_predictor.load_data: the data processor drops its data and takes the new
LoadData(d) ==
    /\ d.ver = (IF dp = <<>> THEN 1 ELSE dp[1].ver + 1)
    /\ dp' = <<d>>
    /\ out' = [NoOut EXCEPT !.op = "load_data"]
    /\ UNCHANGED <<hyperparameters, GPs, num_GPs, gp, RNGkey, drawn, nDraws>>

\* the row count taken for the width
shape1_rows(d) == d.n

\* output_data.shape[1]
shape1(d) == d.width

\* an append loop that builds the whole list anew
Grow_rebuild(gs, d, h) ==
    IF shape1(d) > Len(gs)
    THEN [i \in 1..shape1(d) |-> NewGP(<<i, d.ver>>, h)]
    ELSE gs

\* GP_predictor.train, the append loop
Grow(gs, d, h) ==
    IF shape1(d) > Len(gs)
    THEN gs \o [i \in 1..(shape1(d) - Len(gs)) |-> NewGP(<<Len(gs) + i, d.ver>>, h)]
    ELSE gs

\* a load and train loop that leaves out the models that hold a posterior
TrainLoop_new_only(gs, d, h, failAt, how) ==
    [i \in 1..Len(gs) |->
        IF gs[i].opt_posterior # <<>>
        THEN gs[i]
        ELSE IF i <= d.width /\ i < failAt
        THEN GP_train(GP_load_data(gs[i], h, d, i), "ok")
        ELSE IF i <= d.width /\ i = failAt
        THEN GP_train(GP_load_data(gs[i], h, d, i), how)
        ELSE gs[i]]

\* GP_predictor.train, the load and train loop: it completes when failAt is
\* past the last model, otherwise the train of model failAt raises how
TrainLoop(gs, d, h, failAt, how) ==
    [i \in 1..Len(gs) |->
        IF i <= d.width /\ i < failAt
        THEN GP_train(GP_load_data(gs[i], h, d, i), "ok")
        ELSE IF i <= d.width /\ i = failAt
        THEN GP_train(GP_load_data(gs[i], h, d, i), how)
        ELSE gs[i]]

\* GP_predictor.run_tests: test_indices
run_tests_indices(gs, h) ==
    TestIndices(h.testset_fraction[1], Len(gs[1].D[1].idx))

\* GP_predictor.train
Train(failAt, how, plotFails) ==
    /\ dp # <<>>
    /\ LET d == dp[1]
           h == hyperparameters
           grown == Grow(GPs, d, h)
           outcomes == TrainOutcomes(GP_load_data(grown[1], h, d, 1), h)
           completes == failAt = d.width + 1
           trained == TrainLoop(grown, d, h, failAt, how)
           tests == completes /\ Diagnostics(h) /\ h.testset_fraction # <<>>
       IN  /\ failAt \in 1..(d.width + 1)
           /\ IF completes THEN how = "ok" ELSE how \in outcomes \ {"ok"}
           /\ (failAt > 1) => "ok" \in outcomes
           /\ plotFails => tests /\ Len(run_tests_indices(trained, h)) > 0
           /\ num_GPs' = shape1(d)
           /\ GPs' = trained
           /\ out' = [NoOut EXCEPT !.op = "train",
                                   !.ok = completes /\ ~plotFails,
                                   !.err = IF plotFails THEN "plot_error" ELSE how,
                                   !.tests = IF tests THEN <<run_tests_indices(trained, h)>> ELSE <<>>,
                                   !.plotted = (Diagnostics(h) /\ (failAt > 1 \/ how = "plot_error"))]
    /\ UNCHANGED <<hyperparameters, dp, gp, RNGkey, drawn, nDraws>>

\* the first of the num_GPs models a prediction raises on, num_GPs + 1 when none
FirstUntrained(gs, k) ==
    IF \E i \in 1..k : ~CanPredict(gs[i])
    THEN CHOOSE i \in 1..k : ~CanPredict(gs[i]) /\ \A j \in 1..(i - 1) : CanPredict(gs[j])
    ELSE k + 1

\* the models after the first m - 1 looked up their inverse
CacheUpTo(gs, m) == [i \in 1..Len(gs) |-> IF i < m THEN GP_cache(gs[i]) ELSE gs[i]]

\* GP_predictor.predict
Predict ==
    /\ num_GPs >= 1
    /\ LET m == FirstUntrained(GPs, num_GPs)
       IN  /\ GPs' = CacheUpTo(GPs, m)
           /\ out' = [NoOut EXCEPT !.op = "predict",
                                   !.ok = (m = num_GPs + 1),
                                   !.err = IF m = num_GPs + 1 THEN "" ELSE "AttributeError"]
    /\ UNCHANGED <<hyperparameters, dp, num_GPs, gp, RNGkey, drawn, nDraws>>

\* GP_predictor.predict_value_and_std
PredictValueAndStd ==
    /\ num_GPs >= 1
    /\ LET m == FirstUntrained(GPs, num_GPs)
       IN  out' = [NoOut EXCEPT !.op = "predict_value_and_std",
                                !.ok = (m = num_GPs + 1),
                                !.err = IF m = num_GPs + 1 THEN "" ELSE "AttributeError"]
    /\ UNCHANGED <<hyperparameters, dp, GPs, num_GPs, gp, RNGkey, drawn, nDraws>>

\* the key after i models of sample_prediction were sampled
RECURSIVE ThreadKey(_, _)
ThreadKey(key, i) == IF i = 0 THEN key ELSE sample_newkey(ThreadKey(key, i - 1))

\* output_data_compressed.at[:,[i]].set(_): an (Nq, 1) block set into N rows
SetColumn(N, Nq) ==
    IF Nq = N THEN "set" ELSE IF Nq = 1 THEN "broadcast" ELSE "ValueError"

\* GP_predictor.sample_prediction
SamplePrediction(N) ==
    /\ num_GPs >= 1
    /\ Len(RNGkey) + num_GPs <= MaxKeyDepth
    /\ LET m == FirstUntrained(GPs, num_GPs)
           Nq == hyperparameters.N_quality_samples
           shape == SetColumn(N, Nq)
           done == IF m = 1 THEN 0
                   ELSE IF shape = "ValueError" THEN 1
                   ELSE m - 1
           ok == m = num_GPs + 1 /\ shape # "ValueError"
       IN  /\ GPs' = CacheUpTo(GPs, done + 1)
           /\ RNGkey' = IF ok THEN ThreadKey(RNGkey, num_GPs) ELSE RNGkey
           /\ drawn' = IF ok
                       THEN drawn \cup {sample_drawkey(ThreadKey(RNGkey, i - 1)) : i \in 1..num_GPs}
                       ELSE drawn
           /\ nDraws' = IF ok THEN nDraws + num_GPs ELSE nDraws
           /\ out' = [NoOut EXCEPT !.op = "sample_prediction",
                                   !.ok = ok,
                                   !.key = <<RNGkey>>,
                                   !.N = N,
                                   !.err = IF ok THEN ""
                                           ELSE IF m = 1 \/ shape # "ValueError" THEN "AttributeError"
                                           ELSE "ValueError",
                                   !.rows = IF ok THEN N ELSE 0,
                                   !.draws = IF ~ok THEN 0 ELSE IF shape = "set" THEN N ELSE 1]
    /\ UNCHANGED <<hyperparameters, dp, num_GPs, gp>>

\* GP.sample called on model i of the ensemble with the caller's key
SampleModel(i) ==
    /\ i \in 1..num_GPs
    /\ CanPredict(GPs[i])
    /\ Len(RNGkey) < MaxKeyDepth
    /\ GPs' = [GPs EXCEPT ![i] = GP_cache(GPs[i])]
    /\ RNGkey' = sample_newkey(RNGkey)
    /\ drawn' = drawn \cup {sample_drawkey(RNGkey)}
    /\ nDraws' = nDraws + 1
    /\ out' = [NoOut EXCEPT !.op = "GP.sample",
                            !.key = <<RNGkey>>,
                            !.rows = hyperparameters.N_quality_samples,
                            !.draws = hyperparameters.N_quality_samples]
    /\ UNCHANGED <<hyperparameters, dp, num_GPs, gp>>

\* class GP: predict_gradient is commented out
GP_has_predict_gradient == FALSE

\* GP_predictor.predict_gradients
PredictGradients ==
    /\ num_GPs >= 1
    /\ out' = [NoOut EXCEPT !.op = "predict_gradients",
                            !.ok = GP_has_predict_gradient,
                            !.err = IF GP_has_predict_gradient THEN "" ELSE "AttributeError",
                            !.rows = IF GP_has_predict_gradient THEN num_GPs ELSE 0]
    /\ UNCHANGED <<hyperparameters, dp, GPs, num_GPs, gp, RNGkey, drawn, nDraws>>

\* the squared predictive standard deviations update_error can meet, in tolerance units
StdSquares == {0, 3 * TolInit}

\* a loop body that doubles the tolerance
update_error_one_doubling(g, stdsq) ==
    IF 3 * g.error_tolerance > stdsq
    THEN [g EXCEPT !.error_tolerance = g.error_tolerance * 2]
    ELSE g

\* a loop body that halves the tolerance twice
update_error_one_twice(g, stdsq) ==
    IF 3 * g.error_tolerance > stdsq
    THEN [g EXCEPT !.error_tolerance = (g.error_tolerance \div 2) \div 2]
    ELSE g

\* GP_predictor.update_error, the body of the loop for one model
update_error_one(g, stdsq) ==
    IF 3 * g.error_tolerance > stdsq
    THEN [g EXCEPT !.error_tolerance = g.error_tolerance \div 2]
    ELSE g

\* GP_predictor.update_error
UpdateError(stdsq) ==
    /\ num_GPs >= 1
    /\ LET m == FirstUntrained(GPs, num_GPs)
       IN  /\ GPs' = [i \in 1..Len(GPs) |->
                        IF i < m THEN update_error_one(GPs[i], stdsq[i]) ELSE GPs[i]]
           /\ out' = [NoOut EXCEPT !.op = "update_error",
                                   !.stdsq = stdsq,
                                   !.ok = (m = num_GPs + 1),
                                   !.err = IF m = num_GPs + 1 THEN "" ELSE "AttributeError"]
    /\ UNCHANGED <<hyperparameters, dp, num_GPs, gp, RNGkey, drawn, nDraws>>

Init ==
    /\ hyperparameters \in Hyperparameters
    /\ dp = <<>>
    /\ GPs = <<>>
    /\ num_GPs = 0
    /\ gp = NewGP(<<0, 0>>, hyperparameters)
    /\ RNGkey = <<>>
    /\ drawn = {}
    /\ nDraws = 0
    /\ out = NoOut

NextGP ==
    \/ \E d \in GPDataSets : GPLoadData(d)
    \/ \E how \in {"ok", "ValueError", "AttributeError", "fit_error", "plot_error"} : GPTrain(how)
    \/ GPPredict
    \/ \E std \in PredictiveStds : GPPredictValueAndStd(std)
    \/ \E std \in PredictiveStds : GPSample(std)
    \/ \E std \in PredictiveStds : GPSampleDefaultKey(std)

SpecGP == Init /\ [][NextGP]_vars

\* C1: every posterior mean GP.predict or GP.sample returns is computed from
\* an inverse kernel matrix built from the model's current Dataset and current
\* posterior, after the most recent load_data and the most recent train.
C1_CurrentInverse ==
    out.op \in {"GP.predict", "GP.sample"} =>
        /\ out.inv = <<compute_inv_Kxx(gp.opt_posterior[1], gp.D[1])>>
        /\ out.current = <<TRUE>>

\* a predict that found an inverse of other data or another posterior cached
C1_Witness ==
    /\ out.op = "GP.predict"
    /\ out.before # <<>>
    /\ out.before # out.inv

Next ==
    \/ \E d \in DataSets : LoadData(d)
    \/ \E failAt \in 1..(MaxWidth + 1), plotFails \in BOOLEAN :
          \E how \in {"ok", "ValueError", "fit_error", "plot_error"} : Train(failAt, how, plotFails)
    \/ PredictValueAndStd
    \/ \E stdsq \in [1..num_GPs -> StdSquares] : UpdateError(stdsq)

\* training and error adaptation draw no samples: N_quality_samples is left at one value
InitTrain == Init /\ hyperparameters.N_quality_samples = MaxSamples

Spec == InitTrain /\ [][Next]_vars

Max(a, b) == IF a > b THEN a ELSE b

\* C2 as stated: at all times len(GPs) == num_GPs, and after a train call
\* num_GPs is the compressed width of the data it trained on.
C2_Original ==
    /\ Len(GPs) = num_GPs
    /\ out.op = "train" => num_GPs = dp[1].width

\* C2 amended: after a train call num_GPs is the compressed width of the data
\* it trained on, and at all times len(GPs) >= num_GPs.
C2_Amended ==
    /\ Len(GPs) >= num_GPs
    /\ out.op = "train" => num_GPs = dp[1].width

\* a train call on data narrower than the ensemble
C2_Witness ==
    /\ out.op = "train"
    /\ out.ok
    /\ dp[1].width < Len(GPs)

\* model i holds the training Dataset cut from the current data and a
\* posterior fitted on that Dataset
FitOnLatest(g) ==
    /\ g.D # <<>>
    /\ g.D[1].ver = dp[1].ver
    /\ g.opt_posterior # <<>>
    /\ g.opt_posterior[1].D = g.D[1]

\* C3 as stated: after a train call that returns, num_GPs is the compressed
\* width and every entry of GPs holds a Dataset of the latest data and a
\* posterior fitted on it.
C3_Original ==
    (out.op = "train" /\ out.ok) =>
        /\ num_GPs = dp[1].width
        /\ \A i \in 1..Len(GPs) : FitOnLatest(GPs[i])

\* C3 amended: after a train call that returns, num_GPs is the compressed
\* width and each of the first num_GPs entries of GPs holds a Dataset of the
\* latest data and a posterior fitted on it.
C3_Amended ==
    (out.op = "train" /\ out.ok) =>
        /\ num_GPs = dp[1].width
        /\ \A i \in 1..num_GPs : FitOnLatest(GPs[i])

\* a returned train call that refitted models fitted on earlier data
C3_Witness ==
    /\ out.op = "train"
    /\ out.ok
    /\ dp[1].ver >= 2
    /\ num_GPs >= 2
    /\ \A i \in 1..num_GPs : GPs[i].id[2] < dp[1].ver /\ FitOnLatest(GPs[i])

\* C4: no step raises the error_tolerance of a model.
C4_ToleranceNeverIncreases ==
    [][\A i \in 1..Len(GPs) : GPs'[i].error_tolerance <= GPs[i].error_tolerance]_vars

\* a model whose tolerance was halved and that was then loaded and trained again
C4_Witness ==
    /\ out.op = "train"
    /\ out.ok
    /\ \E i \in 1..num_GPs :
          /\ GPs[i].error_tolerance < hyperparameters.error_tolerance
          /\ GPs[i].opt_posterior[1].noise = GPs[i].error_tolerance

\* C6 as stated: a train call on data wider than the last call's leaves
\* exactly that many models, the earlier ones kept in place with their
\* error_tolerance.
C6_Original ==
    [][(out'.op = "train" /\ num_GPs' > num_GPs) =>
          /\ Len(GPs') = num_GPs'
          /\ \A i \in 1..Len(GPs) :
                /\ GPs'[i].id = GPs[i].id
                /\ GPs'[i].error_tolerance = GPs[i].error_tolerance]_vars

\* C6 amended: a train call on data of width k leaves max(len(GPs), k)
\* models, the earlier ones kept in place with their error_tolerance.
C6_Amended ==
    [][(out'.op = "train") =>
          /\ Len(GPs') = Max(Len(GPs), dp[1].width)
          /\ \A i \in 1..Len(GPs) :
                /\ GPs'[i].id = GPs[i].id
                /\ GPs'[i].error_tolerance = GPs[i].error_tolerance]_vars

\* a train call appended a model behind one whose tolerance was halved before
C6_Witness ==
    /\ out.op = "train"
    /\ out.ok
    /\ Len(GPs) >= 2
    /\ GPs[1].error_tolerance < hyperparameters.error_tolerance
    /\ GPs[1].id[2] < dp[1].ver
    /\ GPs[Len(GPs)].id[2] = dp[1].ver

\* C7: the test indices of run_tests are the test indices the first model's
\* load_data cut its test Dataset with.
C7_SameTestIndices ==
    (out.op = "train" /\ out.tests # <<>>) =>
        out.tests[1] = GPs[1].test_D[1].idx

NextSample ==
    \/ \E d \in DataSets : LoadData(d)
    \/ \E failAt \in 1..(MaxWidth + 1), plotFails \in BOOLEAN :
          \E how \in {"ok", "ValueError", "fit_error", "plot_error"} : Train(failAt, how, plotFails)
    \/ Predict
    \/ \E N \in 1..MaxSamples : SamplePrediction(N)
    \/ \E i \in 1..MaxWidth : SampleModel(i)
    \/ PredictGradients

SpecSample == Init /\ [][NextSample]_vars

\* C5: whenever the ensemble predicts, the models it uses hold the same rows
\* of the same training data.
C5_SameRows ==
    (out.op \in {"predict", "sample_prediction"} /\ out.ok) =>
        \A i, j \in 1..num_GPs :
            /\ GPs[i].D[1].ver = GPs[j].D[1].ver
            /\ GPs[i].D[1].idx = GPs[j].D[1].idx


\* every one of the num_GPs models holds a fitted posterior
Trained == num_GPs >= 1 /\ \A i \in 1..num_GPs : CanPredict(GPs[i])

\* C8: when each sampling call is given the key the previous one returned, no
\* key draws samples twice, and the key a call returns differs from the key it
\* was given and from every key that has drawn samples.
C8_KeysFresh ==
    /\ Cardinality(drawn) = nDraws
    /\ RNGkey \notin drawn
    /\ (out.op \in {"GP.sample", "sample_prediction"} /\ out.ok) => RNGkey # out.key[1]

\* a sample_prediction over several models, given the key an earlier call returned
C8_Witness ==
    /\ out.op = "sample_prediction"
    /\ out.ok
    /\ num_GPs >= 2
    /\ out.key # <<<<>>>>
    /\ nDraws > num_GPs

\* C9: on a trained ensemble sample_prediction(parameters, N) returns, with N
\* rows, each model having put N draws in its column.
C9_NSamples ==
    (out.op = "sample_prediction" /\ Trained) =>
        /\ out.ok
        /\ out.rows = out.N
        /\ out.draws = out.N

\* C10: on a trained ensemble predict_gradients returns without error.
C10_GradientsComplete ==
    (out.op = "predict_gradients" /\ Trained) => out.ok

\* C11 as stated: the noise variance of every fitted posterior equals the
\* model's current error_tolerance.
C11_Original ==
    \A i \in 1..Len(GPs) :
        GPs[i].opt_posterior # <<>> =>
            GPs[i].opt_posterior[1].noise = GPs[i].error_tolerance

\* C11 amended: the noise variance of a fitted posterior is the
\* error_tolerance the model had when it was fitted: it equals the current
\* error_tolerance after a train call that returns, and is never below it.
C11_Amended ==
    /\ \A i \in 1..Len(GPs) :
          GPs[i].opt_posterior # <<>> =>
              GPs[i].opt_posterior[1].noise >= GPs[i].error_tolerance
    /\ (out.op = "train" /\ out.ok) =>
          \A i \in 1..num_GPs :
              GPs[i].opt_posterior[1].noise = GPs[i].error_tolerance

\* update_error halved the tolerance of a model fitted with a tolerance that
\* had been halved before
C11_Witness ==
    /\ out.op = "update_error"
    /\ \E i \in 1..num_GPs :
          /\ GPs[i].opt_posterior # <<>>
          /\ GPs[i].opt_posterior[1].noise > GPs[i].error_tolerance
          /\ GPs[i].opt_posterior[1].noise < hyperparameters.error_tolerance

\* C12: GP.train with a 'kernel' other than 'RBF' raises ValueError before any
\* optimization step, once, and leaves the model (Dataset, posterior, cached
\* inverse, dirty flag) as it was.
C12_UnsupportedKernel ==
    [][(out'.op = "GP.train" /\ hyperparameters.kernel # "RBF") =>
           (out'.err = "ValueError" /\ ~out'.ok /\ gp' = gp)]_vars

\* a train refused for its kernel on a model that holds data
C12_Witness ==
    /\ out.op = "GP.train"
    /\ out.err = "ValueError"
    /\ hyperparameters.kernel # "RBF"
    /\ gp.D # <<>>
    /\ gp.opt_posterior = <<>>

\* C13: a failure of the plotting calls (or of creating their directory) during
\* GP.train, GP_predictor.train or run_tests does not abort training: the train
\* call completes with every model of the ensemble reloaded and refitted.
C13_PlottingFailureContained ==
    (out.op = "train" /\ out.err = "plot_error") =>
        /\ out.ok
        /\ \A i \in 1..num_GPs : FitOnLatest(GPs[i])

\* C14: GP.sample(x) returns mean + scale * z with z standard normal, the mean
\* being the value GP.predict(x) computes from the same inverse and the scale
\* the predictive standard deviation GP.predict_value_and_std(x) returns.
C14_ScaleIsStd ==
    (out.op = "GP.sample" /\ out.scale # <<>>) =>
        /\ out.inv = <<compute_inv_Kxx(gp.opt_posterior[1], gp.D[1])>>
        /\ out.scale = out.std

\* C15: every GP.sample call, also one that omits RNGkey, draws only from random
\* state the caller supplied for that call: two successive calls never draw
\* with the same key unless the caller passed the same key to both.
C15_NoHiddenKey ==
    [][(/\ out.op = "GP.sample"
        /\ out'.op = "GP.sample"
        /\ ~(out.key # <<>> /\ out.key = out'.key))
       => out'.drawkey # out.drawkey]_vars

\* C16: with plotting_directory None no call of train, predict_value_and_std or
\* update_error calls a plotting function or creates a directory, and none
\* fails in one, whatever testset_fraction is.
C16_NoDiagnostics ==
    hyperparameters.plotting_directory = <<>> =>
        /\ ~out.plotted
        /\ out.err # "plot_error"
        /\ out.tests = <<>>

\* a completed train of two models with a test set and no plotting directory
C16_Witness ==
    /\ hyperparameters.plotting_directory = <<>>
    /\ hyperparameters.testset_fraction # <<>>
    /\ out.op = "train"
    /\ out.ok
    /\ num_GPs >= 2
    /\ \A i \in 1..num_GPs : GPs[i].test_D # <<>>

\* C17 as stated: load_data sets the dirty flag, the first GP.predict after
\* load_data and train rebuilds the inverse and clears the flag, and later
\* predicts find it cleared and reuse the cached inverse.
C17_Original ==
    out.op = "GP.predict" => ~gp.recompute_kernel_matrix

\* C17 amended: load_data sets the dirty flag and nothing clears it: it is set
\* exactly when a Dataset was loaded, and every GP.predict, the first and the
\* later ones, finds it set, rebuilds the inverse from the current Dataset and
\* posterior, stores it, and returns with the flag still set.
C17_Amended ==
    /\ gp.recompute_kernel_matrix <=> gp.D # <<>>
    /\ out.op = "GP.predict" =>
          /\ gp.recompute_kernel_matrix
          /\ gp.inv_Kxx = out.inv
          /\ out.inv = <<compute_inv_Kxx(gp.opt_posterior[1], gp.D[1])>>

\* a later predict with no load_data or train since the inverse was built:
\* the inverse it rebuilds is the one that was cached
C17_Witness ==
    /\ out.op = "GP.predict"
    /\ out.before # <<>>
    /\ out.before = out.inv
    /\ gp.recompute_kernel_matrix

\* C18: an update_error call that returns has visited each of the num_GPs
\* models once: a model's error_tolerance is halved, once, exactly when it
\* exceeds a third of the squared predictive std at the point, and is left as
\* it was otherwise; models beyond num_GPs are not touched.
C18_HalvesExactlyWhen ==
    [][(out'.op = "update_error" /\ out'.ok) =>
          /\ Len(out'.stdsq) = num_GPs
          /\ \A i \in 1..Len(GPs) :
                GPs'[i] = IF i <= num_GPs /\ 3 * GPs[i].error_tolerance > out'.stdsq[i]
                          THEN [GPs[i] EXCEPT !.error_tolerance = GPs[i].error_tolerance \div 2]
                          ELSE GPs[i]]_vars

\* one call that halved the first model's tolerance and left the second's
C18_Witness ==
    /\ out.op = "update_error"
    /\ out.ok
    /\ num_GPs >= 2
    /\ out.stdsq[1] = 0
    /\ GPs[1].error_tolerance = TolInit \div 2
    /\ out.stdsq[2] = 3 * TolInit
    /\ GPs[2].error_tolerance = TolInit

\* C19: after every GP.load_data call that returns, the training Dataset has at
\* least one row, whatever the input size and the testset_fraction; a split
\* that would leave no training row is refused.
C19_TrainingRows ==
    out.op = "GP.load_data" => (out.ok /\ Len(gp.D[1].idx) >= 1)

Range(f) == {f[i] : i \in DOMAIN f}

\* rows a model holds, training and test
RowsHeld(g) ==
    Len(g.D[1].idx) + (IF g.test_D = <<>> THEN 0 ELSE Len(g.test_D[1].idx))

\* C20: GP.load_data with a testset_fraction partitions the N rows passed in:
\* training and test indices are disjoint, without repeats, together all N
\* rows, the training set has int((1 - testset_fraction) * N) of them, and a
\* load of N rows on a model that held N rows gives the same indices again;
\* with testset_fraction None the training Dataset is the input in its order
\* and test_D is None. Either way the Datasets hold rows of the new data only.
C20_Partition ==
    [][out'.op = "GP.load_data" =>
          LET d == out'.data[1]
              f == hyperparameters.testset_fraction
              train == gp'.D[1].idx
          IN  /\ gp'.D[1].ver = d.ver
              /\ IF f = <<>>
                 THEN /\ train = Iota(d.n)
                      /\ gp'.test_D = <<>>
                 ELSE LET test == gp'.test_D[1].idx
                      IN  /\ gp'.test_D[1].ver = d.ver
                          /\ Range(train) \cap Range(test) = {}
                          /\ Range(train) \cup Range(test) = 1..d.n
                          /\ Len(train) + Len(test) = d.n
                          /\ Len(train) = SplitPoint(f[1], d.n)
              /\ (gp.D # <<>> /\ RowsHeld(gp) = d.n) =>
                    /\ gp'.D[1].idx = gp.D[1].idx
                    /\ f # <<>> => gp'.test_D[1].idx = gp.test_D[1].idx]_vars

\* a split load of new data on a model fitted on the data it held before
C20_Witness ==
    /\ out.op = "GP.load_data"
    /\ hyperparameters.testset_fraction # <<>>
    /\ Len(gp.D[1].idx) >= 1
    /\ Len(gp.test_D[1].idx) >= 2
    /\ gp.opt_posterior # <<>>
    /\ gp.opt_posterior[1].D.ver # gp.D[1].ver
    /\ Len(gp.opt_posterior[1].D.idx) = Len(gp.D[1].idx)

\* C21: each model owns its hyperparameter dictionary. No call changes the
\* ensemble's hyperparameters; update_error changes a model's error_tolerance
\* only on that model's own test, whatever it halves in the others; and a
\* model a train call appends carries the ensemble's configured
\* error_tolerance, not the lowered one of the models already there.
C21_HyperparameterIsolation ==
    [][/\ hyperparameters' = hyperparameters
       /\ hyperparameters'.error_tolerance = TolInit
       /\ out'.op = "update_error" =>
             \A j \in 1..Len(GPs) :
                 GPs'[j].error_tolerance # GPs[j].error_tolerance =>
                     /\ j <= num_GPs
                     /\ 3 * GPs[j].error_tolerance > out'.stdsq[j]
       /\ \A j \in (Len(GPs) + 1)..Len(GPs') :
             GPs'[j].error_tolerance = hyperparameters.error_tolerance]_vars

\* a train on wider data after update_error lowered the first model's
\* tolerance: the appended model has the configured tolerance
C21_Witness ==
    /\ out.op = "train"
    /\ out.ok
    /\ \E i, j \in 1..num_GPs :
          /\ i < j
          /\ GPs[i].error_tolerance < hyperparameters.error_tolerance
          /\ GPs[j].id[2] > GPs[i].id[2]
          /\ GPs[j].error_tolerance = hyperparameters.error_tolerance
====
